---- MODULE Spec2Model ----
(***************************************************************************)
(* The long-polling root endpoint (dummy_rpc) that generate_compose.py     *)
(* injects into the green agent: every request blocks in a poll loop over  *)
(* the result directories until a recent result file shows up or the       *)
(* safety timeout elapses.  Time is counted in whole seconds; the work of  *)
(* one loop iteration takes no time, time.sleep(4) takes exactly 4 s.      *)
(***************************************************************************)
EXTENDS Integers, Sequences, FiniteSets

VARIABLES now, fs, fsOps, sess, freshAppeared

vars == <<now, fs, fsOps, sess, freshAppeared>>

-----------------------------------------------------------------------------
(* Program constants *)

FRESH_WINDOW == 600

TIMEOUT == 1800

POLL_PERIOD == 4

(* Bounds of the model *)

MaxStartTime == 0

MaxFsOps == 1

MaxTime == 12

Sessions == {"s1", "s2"}

-----------------------------------------------------------------------------
(* The file system the handler observes *)

Patterns ==
  <<"results/*.json", "src/results/*.json", "replays/*.jsonl",
    "src/replays/*.jsonl", "output/results.json", "output/*.json", "*.json">>

Paths == {"output/results.json", "result.json", "replays/game.json"}

\* the paths some pattern matches; replays/game.json matches none
ResultPaths == {"output/results.json", "result.json"}

Contents == {"{\"score\": 1}", ""}

NoFile == [exists |-> FALSE, mtime |-> 0, content |-> ""]

StaleMtime == 0 - 1200

OlderMtime == 0 - 1500

RecentMtime == 0 - 100

File(m) == [exists |-> TRUE, mtime |-> m, content |-> "{\"score\": 0}"]

\* what is on disk when the server starts answering: nothing; a result of an
\* earlier run, 20 minutes old; two old results; an old and a recent one
InitFs ==
  { [f \in Paths |-> NoFile],
    [f \in Paths |-> IF f = "result.json" THEN File(StaleMtime)
                     ELSE IF f = "replays/game.json" THEN File(RecentMtime)
                     ELSE NoFile],
    [f \in Paths |-> IF f = "result.json" THEN File(StaleMtime)
                     ELSE IF f = "output/results.json" THEN File(OlderMtime)
                     ELSE NoFile],
    [f \in Paths |-> IF f = "result.json" THEN File(RecentMtime)
                     ELSE IF f = "output/results.json" THEN File(StaleMtime)
                     ELSE NoFile] }

\* glob.glob(p): the existing paths the pattern matches
glob(p) ==
  LET cand == CASE p = "output/results.json" -> <<"output/results.json">>
                [] p = "output/*.json"       -> <<"output/results.json">>
                [] p = "*.json"              -> <<"result.json">>
                [] OTHER                     -> <<>>
  IN SelectSeq(cand, LAMBDA f : fs[f].exists)

RECURSIVE GlobFrom(_)
\* files = []; for p in patterns: files.extend(glob.glob(p))
GlobFrom(i) ==
  IF i > Len(Patterns) THEN <<>> ELSE glob(Patterns[i]) \o GlobFrom(i + 1)

getmtime(f) == fs[f].mtime

basename(f) ==
  CASE f = "output/results.json" -> "results.json"
    [] f = "replays/game.json"   -> "game.json"
    [] OTHER                     -> f

-----------------------------------------------------------------------------
(* files.sort(key=os.path.getmtime, reverse=True): a stable sort, newest   *)
(* first; entries of equal mtime keep their listing order.                 *)

RECURSIVE InsertDesc(_, _)
InsertDesc(sorted, f) ==
  IF sorted = <<>> THEN <<f>>
  ELSE IF getmtime(Head(sorted)) >= getmtime(f)
       THEN <<Head(sorted)>> \o InsertDesc(Tail(sorted), f)
       ELSE <<f>> \o sorted

RECURSIVE InsertAsc(_, _)
InsertAsc(sorted, f) ==
  IF sorted = <<>> THEN <<f>>
  ELSE IF getmtime(Head(sorted)) <= getmtime(f)
       THEN <<Head(sorted)>> \o InsertAsc(Tail(sorted), f)
       ELSE <<f>> \o sorted

RECURSIVE SortOldestFirst(_)
SortOldestFirst(files) ==
  IF files = <<>> THEN <<>>
  ELSE InsertAsc(SortOldestFirst(SubSeq(files, 1, Len(files) - 1)),
                 files[Len(files)])

RECURSIVE SortNewestFirst(_)
SortNewestFirst(files) ==
  IF files = <<>> THEN <<>>
  ELSE InsertDesc(SortNewestFirst(SubSeq(files, 1, Len(files) - 1)),
                  files[Len(files)])

-----------------------------------------------------------------------------
(* The two tests of one loop iteration *)

IsFreshAlways(age) == TRUE

IsFreshUnlessDelivered(age) ==
  age < FRESH_WINDOW /\ \A t \in Sessions : sess[t].response # "completed"

\* if age < 600
IsFresh(age) == age < FRESH_WINDOW

TimedOutLate(elapsed) == elapsed > TIMEOUT + POLL_PERIOD

\* if time.time() - start_time > 1800
TimedOut(elapsed) == elapsed > TIMEOUT

-----------------------------------------------------------------------------
(* What the handler returns *)

\* jsonify({"jsonrpc": "2.0", "id": 1, "result": {...}})
CompletedResponse ==
  [status |-> 200, state |-> "completed", final |-> TRUE,
   messageId |-> "msg-done", role |-> "assistant", text |-> "Game Finished"]

\* jsonify({"error": "timeout_waiting_results"}), 504
TimeoutResponse == [status |-> 504, error |-> "timeout_waiting_results"]

\* an exception escaping the view function: the framework answers 500
ErrorResponse == [status |-> 500]

-----------------------------------------------------------------------------
(* Sessions: one per request to the root endpoint *)

Active == {"glob", "stat", "sleep"}

IdleSession ==
  [pc |-> "idle", start_time |-> 0, files |-> <<>>, decided |-> FALSE,
   last_file |-> "", filename |-> "", age |-> 0, fresh |-> FALSE,
   at |-> 0, cand_mtime |-> 0, listed_mtimes |-> {}, glob_fresh |-> FALSE,
   stale_polls |-> 0, wake |-> 0, response |-> "none", sent |-> <<>>,
   end_time |-> 0, connected |-> TRUE, disc_age |-> 0]

FreshOnDisk(fsN, nowN) ==
  \E f \in ResultPaths : fsN[f].exists /\ nowN - fsN[f].mtime < FRESH_WINDOW

NeverFresh == [by_ceiling |-> FALSE, by_last_poll |-> FALSE]

\* history, per session: a fresh matching file was on disk while the session
\* was running and at most TIMEOUT (by_ceiling), at most TIMEOUT + POLL_PERIOD
\* (by_last_poll) seconds old
NoteFresh(sessN, fsN, nowN) ==
  [s \in Sessions |->
     LET running == sessN[s].pc \in Active /\ FreshOnDisk(fsN, nowN)
         elapsed == nowN - sessN[s].start_time
     IN [by_ceiling |-> freshAppeared[s].by_ceiling
                          \/ (running /\ elapsed <= TIMEOUT),
         by_last_poll |-> freshAppeared[s].by_last_poll
                          \/ (running /\ elapsed <= TIMEOUT + POLL_PERIOD)]]

ClosedSession == [IdleSession EXCEPT !.pc = "closed"]

Init ==
  /\ now = 0
  /\ fs \in InitFs
  /\ fsOps = 0
  /\ sess = [s \in Sessions |-> IdleSession]
  /\ freshAppeared = [s \in Sessions |-> NeverFresh]

\* one request, followed for as long as it lasts; the other one is over
InitLong ==
  /\ now = 0
  /\ fs \in InitFs
  /\ fsOps = 0
  /\ sess = [s \in Sessions |-> IF s = "s1" THEN IdleSession ELSE ClosedSession]
  /\ freshAppeared = [s \in Sessions |-> NeverFresh]

\* a request arrives: start_time = time.time(), then the loop is entered
Start(s) ==
  /\ sess[s].pc = "idle"
  /\ now <= MaxStartTime
  /\ sess' = [sess EXCEPT ![s].pc = "glob", ![s].start_time = now]
  /\ freshAppeared' = NoteFresh(sess', fs, now)
  /\ UNCHANGED <<now, fs, fsOps>>

\* the directory listing of one iteration
Glob(s) ==
  /\ sess[s].pc = "glob"
  /\ LET files == GlobFrom(1) IN
     sess' = [sess EXCEPT
                ![s].pc = "stat",
                ![s].files = files,
                ![s].decided = FALSE,
                ![s].glob_fresh =
                   \E i \in 1..Len(files) : now - getmtime(files[i]) < FRESH_WINDOW]
  /\ freshAppeared' = NoteFresh(sess', fs, now)
  /\ UNCHANGED <<now, fs, fsOps>>

Finish(s, r, kind, response) ==
  [r EXCEPT !.pc = "done", !.response = kind,
            !.sent = Append(sess[s].sent, response), !.end_time = now]

\* the rest of the iteration, with the timeout test ahead of the file test
StatTimeoutFirst(s) ==
  /\ sess[s].pc = "stat"
  /\ LET files == sess[s].files
         me == sess[s]
     IN IF \E i \in 1..Len(files) : ~fs[files[i]].exists
        THEN sess' = [sess EXCEPT ![s] = Finish(s, me, "error500", ErrorResponse)]
        ELSE LET sorted == SortNewestFirst(files)
                 decided == files # <<>>
                 last_file == IF decided THEN sorted[1] ELSE ""
                 age == IF decided THEN now - getmtime(last_file) ELSE 0
                 fresh == decided /\ IsFresh(age)
                 seen == [me EXCEPT
                            !.decided = decided, !.last_file = last_file,
                            !.age = age, !.fresh = fresh, !.at = now,
                            !.cand_mtime = IF decided THEN getmtime(last_file) ELSE 0,
                            !.listed_mtimes =
                               {getmtime(files[i]) : i \in 1..Len(files)}]
             IN IF TimedOut(now - me.start_time)
                THEN sess' = [sess EXCEPT
                       ![s] = Finish(s, seen, "timeout", TimeoutResponse)]
                ELSE IF fresh
                THEN sess' = [sess EXCEPT
                       ![s] = Finish(s, [seen EXCEPT !.filename = basename(last_file)],
                                     "completed", CompletedResponse)]
                ELSE sess' = [sess EXCEPT
                       ![s] = [seen EXCEPT !.pc = "sleep",
                                           !.stale_polls = me.stale_polls + 1,
                                           !.wake = now + POLL_PERIOD]]
  /\ freshAppeared' = NoteFresh(sess', fs, now)
  /\ UNCHANGED <<now, fs, fsOps>>

\* the rest of the iteration: sort, pick files[0], test its age, then the
\* timeout, then time.sleep(4)
Stat(s) ==
  /\ sess[s].pc = "stat"
  /\ LET files == sess[s].files
         me == sess[s]
     IN IF \E i \in 1..Len(files) : ~fs[files[i]].exists
        THEN \* os.path.getmtime raises inside the sort
             sess' = [sess EXCEPT ![s] = Finish(s, me, "error500", ErrorResponse)]
        ELSE LET sorted == SortNewestFirst(files)
                 decided == files # <<>>
                 last_file == IF decided THEN sorted[1] ELSE ""
                 age == IF decided THEN now - getmtime(last_file) ELSE 0
                 fresh == decided /\ IsFresh(age)
                 seen == [me EXCEPT
                            !.decided = decided, !.last_file = last_file,
                            !.age = age, !.fresh = fresh, !.at = now,
                            !.cand_mtime = IF decided THEN getmtime(last_file) ELSE 0,
                            !.listed_mtimes =
                               {getmtime(files[i]) : i \in 1..Len(files)}]
             IN IF fresh
                THEN sess' = [sess EXCEPT
                       ![s] = Finish(s, [seen EXCEPT !.filename = basename(last_file)],
                                     "completed", CompletedResponse)]
                ELSE IF TimedOut(now - me.start_time)
                THEN sess' = [sess EXCEPT
                       ![s] = Finish(s, seen, "timeout", TimeoutResponse)]
                ELSE sess' = [sess EXCEPT
                       ![s] = [seen EXCEPT !.pc = "sleep",
                                           !.stale_polls = me.stale_polls + 1,
                                           !.wake = now + POLL_PERIOD]]
  /\ freshAppeared' = NoteFresh(sess', fs, now)
  /\ UNCHANGED <<now, fs, fsOps>>

\* time.sleep(4) returns
Wake(s) ==
  /\ sess[s].pc = "sleep"
  /\ now >= sess[s].wake
  /\ sess' = [sess EXCEPT ![s].pc = "glob"]
  /\ freshAppeared' = NoteFresh(sess', fs, now)
  /\ UNCHANGED <<now, fs, fsOps>>

\* the response has gone out and the request's thread ends: its locals are
\* gone with it
Close(s) ==
  /\ sess[s].pc = "done"
  /\ sess' = [sess EXCEPT ![s] = ClosedSession]
  /\ freshAppeared' = [freshAppeared EXCEPT ![s] = NeverFresh]
  /\ UNCHANGED <<now, fs, fsOps>>

\* the peer drops the connection; nothing in the handler looks at it
Disconnect(s) ==
  /\ sess[s].pc \in Active
  /\ sess[s].connected
  /\ sess' = [sess EXCEPT ![s].connected = FALSE, ![s].disc_age = 0]
  /\ freshAppeared' = NoteFresh(sess', fs, now)
  /\ UNCHANGED <<now, fs, fsOps>>

-----------------------------------------------------------------------------
(* The environment: the game writing and removing files, and the clock *)

WriteFile(f, c) ==
  /\ fsOps < MaxFsOps
  /\ fs' = [fs EXCEPT ![f] = [exists |-> TRUE, mtime |-> now, content |-> c]]
  /\ fsOps' = fsOps + 1
  /\ freshAppeared' = NoteFresh(sess, fs', now)
  /\ UNCHANGED <<now, sess>>

RemoveFile(f) ==
  /\ fsOps < MaxFsOps
  /\ fs[f].exists
  /\ fs' = [fs EXCEPT ![f] = NoFile]
  /\ fsOps' = fsOps + 1
  /\ freshAppeared' = NoteFresh(sess, fs', now)
  /\ UNCHANGED <<now, sess>>

\* the clock moves on one second once every thread that can run has run
Advance ==
  /\ \A s \in Sessions :
        /\ sess[s].pc \notin {"glob", "stat", "done"}
        /\ sess[s].pc = "sleep" => now < sess[s].wake
  /\ \E s \in Sessions :
        \/ sess[s].pc \in Active
        \/ sess[s].pc = "idle" /\ now < MaxStartTime
  /\ now' = now + 1
  /\ sess' = [s \in Sessions |->
                IF sess[s].pc \in Active /\ ~sess[s].connected
                   /\ sess[s].disc_age <= POLL_PERIOD
                THEN [sess[s] EXCEPT !.disc_age = @ + 1]
                ELSE sess[s]]
  /\ freshAppeared' = NoteFresh(sess', fs, now')
  /\ UNCHANGED <<fs, fsOps>>

Tick == now < MaxTime /\ Advance

TickLong == Advance

\* the steps of the request threads
Handler ==
  \/ \E s \in Sessions : Start(s)
  \/ \E s \in Sessions : Glob(s)
  \/ \E s \in Sessions : Stat(s)
  \/ \E s \in Sessions : Wake(s)
  \/ \E s \in Sessions : Close(s)

\* the game writing and removing result files
Environment ==
  \/ \E f \in ResultPaths, c \in Contents : WriteFile(f, c)
  \/ \E f \in ResultPaths : RemoveFile(f)

Next == Handler \/ Environment \/ Tick

NextLong == Handler \/ Environment \/ TickLong

NextCancel == NextLong \/ \E s \in Sessions : Disconnect(s)

\* concurrent requests over the first MaxTime seconds
Spec == Init /\ [][Next]_vars

\* one request from its arrival to its response
LongSpec == InitLong /\ [][NextLong]_vars

\* one request from its arrival to its response, with a peer that may go away
CancelSpec == InitLong /\ [][NextCancel]_vars

-----------------------------------------------------------------------------
(* Properties *)

IsFinal(e) == "final" \in DOMAIN e /\ e.final = TRUE

IsWorking(e) == "state" \in DOMAIN e /\ e.state = "working"

Elapsed(s) == now - sess[s].start_time

Duration(s) == sess[s].end_time - sess[s].start_time

\* C1: a session that was not cancelled and ends on the completion path or on
\* the timeout path has sent exactly one event with final = true, and that
\* event is the last one sent.
C1_ExactlyOneFinalLast ==
  \A s \in Sessions :
    (sess[s].pc = "done" /\ sess[s].connected
       /\ sess[s].response \in {"completed", "timeout"}) =>
      LET ev == sess[s].sent IN
        /\ ev # <<>>
        /\ IsFinal(ev[Len(ev)])
        /\ Cardinality({i \in 1..Len(ev) : IsFinal(ev[i])}) = 1

\* C2: a poll whose candidate is older than the freshness window never
\* completes the session, even when the candidate is the only matching file;
\* the session goes on polling (or, past the ceiling, times out).
C2_StaleNeverCompletes ==
  \A s \in Sessions :
    (sess[s].decided /\ sess[s].at - sess[s].cand_mtime > FRESH_WINDOW) =>
      /\ sess[s].response # "completed"
      /\ sess[s].pc = "done" => sess[s].response \in {"timeout", "error500"}

C2_Witness ==
  \E s \in Sessions :
    /\ sess[s].pc = "sleep"
    /\ sess[s].decided
    /\ sess[s].age > FRESH_WINDOW
    /\ sess[s].files = <<"result.json">>
    /\ fs["replays/game.json"].exists

\* C3 as stated: if no fresh matching file appears before the ceiling (1800 s)
\* has elapsed, the session ends with a timeout/error response, no later than
\* ceiling + one poll period after its start.
C3_Original ==
  \A s \in Sessions :
    /\ sess[s].pc \in Active => Elapsed(s) <= TIMEOUT + POLL_PERIOD
    /\ (sess[s].pc = "done" /\ ~freshAppeared[s].by_ceiling) =>
         /\ sess[s].response \in {"timeout", "error500"}
         /\ Duration(s) <= TIMEOUT + POLL_PERIOD

\* C3 amended: if no fresh matching file is on disk at any moment up to and
\* including the poll at ceiling + one poll period, the session ends with a
\* timeout/error response, no later than ceiling + one poll period after its
\* start; no session runs longer than that.
C3_TimeoutWithinCeilingPlusPeriod ==
  \A s \in Sessions :
    /\ sess[s].pc \in Active => Elapsed(s) <= TIMEOUT + POLL_PERIOD
    /\ (sess[s].pc = "done" /\ ~freshAppeared[s].by_last_poll) =>
         /\ sess[s].response \in {"timeout", "error500"}
         /\ Duration(s) <= TIMEOUT + POLL_PERIOD

C3_Witness ==
  \E s \in Sessions :
    /\ sess[s].pc = "done"
    /\ sess[s].response = "timeout"
    /\ ~freshAppeared[s].by_last_poll
    /\ sess[s].files = <<"result.json">>
    /\ sess[s].age > FRESH_WINDOW
    /\ Duration(s) = TIMEOUT + POLL_PERIOD

\* C4: the candidate a poll evaluates, and reports when it completes, is a
\* listed file of the greatest modification time among the listed files.
C4_NewestSelected ==
  \A s \in Sessions :
    sess[s].decided =>
      /\ \E i \in 1..Len(sess[s].files) : sess[s].files[i] = sess[s].last_file
      /\ \A m \in sess[s].listed_mtimes : sess[s].cand_mtime >= m
      /\ sess[s].response = "completed" =>
           sess[s].filename = basename(sess[s].last_file)

C4_Witness ==
  \E s \in Sessions :
    /\ sess[s].decided
    /\ Cardinality(sess[s].listed_mtimes) >= 2
    /\ sess[s].files[1] # sess[s].last_file
    /\ sess[s].response = "completed"

\* C5: the terminal event of a session completed by a fresh file has
\* final = true and carries one artifact, named after the file's base name,
\* whose content is the file's content.
C5_ArtifactDelivered ==
  \A s \in Sessions :
    sess[s].response = "completed" =>
      LET e == sess[s].sent[Len(sess[s].sent)] IN
        /\ IsFinal(e)
        /\ "artifacts" \in DOMAIN e
        /\ e.artifacts = <<[name |-> basename(sess[s].last_file),
                            content |-> fs[sess[s].last_file].content]>>

\* C6: a session has sent one Working event as soon as it has started, before
\* its first scan, and one more after each poll that found no fresh candidate.
C6_WorkingEvents ==
  \A s \in Sessions :
    sess[s].pc \in Active \cup {"done"} =>
      LET ev == sess[s].sent IN
        /\ ev # <<>>
        /\ IsWorking(ev[1])
        /\ Cardinality({i \in 1..Len(ev) : IsWorking(ev[i])})
             = 1 + sess[s].stale_polls

\* C7: once the client of a session has been gone for more than one poll
\* period, the session's poll loop has stopped.
C7_CancelStopsLoop ==
  \A s \in Sessions :
    (~sess[s].connected /\ sess[s].disc_age > POLL_PERIOD) =>
      sess[s].pc \notin Active

\* C8: two sessions that classify a candidate of the same modification time
\* at the same clock time decide alike, and the decision is the comparison of
\* (time - mtime) with the window, whatever either session has done before.
C8_SameClassification ==
  /\ \A s, t \in Sessions :
       (sess[s].decided /\ sess[t].decided /\ sess[s].at = sess[t].at
          /\ sess[s].cand_mtime = sess[t].cand_mtime) =>
         sess[s].fresh = sess[t].fresh
  /\ \A s \in Sessions :
       sess[s].decided =>
         (sess[s].fresh <=> sess[s].at - sess[s].cand_mtime < FRESH_WINDOW)

C8_Witness ==
  \E s, t \in Sessions :
    /\ s # t
    /\ sess[s].response = "completed"
    /\ sess[t].pc = "done"
    /\ sess[t].decided /\ sess[t].fresh
    /\ sess[s].at = sess[t].at
    /\ sess[s].last_file = sess[t].last_file

\* C9: a session whose listing held a fresh candidate still ends with the
\* success terminal event when the access to a listed file fails.
C9_AccessFailureTolerated ==
  \A s \in Sessions :
    (sess[s].pc = "done" /\ sess[s].glob_fresh) =>
      /\ sess[s].response = "completed"
      /\ IsFinal(sess[s].sent[Len(sess[s].sent)])

\* C10: in one iteration the freshness test comes first: a poll that finds a
\* fresh candidate completes the session even after more than 1800 s, and the
\* timeout response comes only from a poll that found no fresh candidate,
\* more than 1800 s after the start.
C10_FreshBeforeTimeout ==
  \A s \in Sessions :
    /\ (sess[s].pc \in {"sleep", "done"} /\ sess[s].decided /\ sess[s].fresh) =>
         sess[s].response = "completed"
    /\ sess[s].response = "timeout" =>
         ~sess[s].fresh /\ Duration(s) > TIMEOUT

C10_Witness ==
  \E s \in Sessions :
    /\ sess[s].response = "completed"
    /\ Duration(s) > TIMEOUT

====
